---- MODULE Spec2Model ----
(***************************************************************************)
(* ShelvesCreator (src/src/shelvesCreator.py): a helper object that keeps  *)
(* a cached snapshot (exists, buttons, layout) of one named shelf of the   *)
(* host UI and issues host calls guarded by that snapshot.                 *)
(*                                                                         *)
(* Strings are token sequences, so that concatenation ('+', '%',           *)
(* os.path.join) is sequence concatenation: '' is <<>>, 'user/a.png' is    *)
(* <<"user", "/", "a.png">>.                                                *)
(***************************************************************************)
EXTENDS Integers, Sequences, FiniteSets, TLC

VARIABLES
    host,        \* the host UI: shelf name -> [exists, kids]
    nextId,      \* the host's next fresh control name
    helper,      \* the ShelvesCreator objects: reference -> fields
    pathGiven,   \* history: the python path last given to each helper
    nameBound,   \* does the module-global name 'ShelfCreator' resolve (line 28)
    last         \* history: the call that produced this state

vars == <<host, nextId, helper, pathGiven, nameBound, last>>

-----------------------------------------------------------------------------
(* Bounds *)

\* controls the host ever names (initial ones included)
MaxIds == 3
\* children a shelf may hold before the first call
MaxInitKids == 1

-----------------------------------------------------------------------------
(* Input domains *)

Helpers == {"h1", "h2"}

\* 'name' arguments of the constructor
NameArgs == {<<>>, <<"CustomShelf">>}
NoName == <<"NoName">>
CustomShelf == <<"CustomShelf">>
ShelfNames == {NoName, CustomShelf}

\* 'python_path' / 'path' arguments
PathArgs == {<<>>, <<"/lib">>}

\* 'command' arguments
CommandArgs == {<<"run()">>}

\* 'icon_path' arguments and 'icon' arguments
IconPathArgs == {<<>>, <<"user">>}
IconArgs == {<<>>, <<"a.png">>, <<"b.png">>, <<"c.png">>}

-----------------------------------------------------------------------------
(* The file system seen by os.path.exists *)

ICON_PATH == <<"moduledir", "/", "icons">>

Dirs == {<<"user">>, ICON_PATH}
Files == {<<"user", "/", "a.png">>,
          ICON_PATH \o <<"/", "a.png">>,
          ICON_PATH \o <<"/", "b.png">>}

\* os.path.exists: true of a file, of a directory, and of a directory
\* written with a trailing separator; false of ''.
PathExists(p) == p \in Files \/ p \in Dirs \/ p \in {d \o <<"/">> : d \in Dirs}

\* os.path.join(a, b) (posix): b alone when absolute, otherwise a and b
\* separated by exactly one '/', no separator after an empty a.
PathJoin(a, b) ==
    IF b # <<>> /\ Head(b) = "/" THEN b
    ELSE IF a = <<>> \/ a[Len(a)] = "/" THEN a \o b
    ELSE a \o <<"/">> \o b

DefaultImage == <<"pythonFamily.png">>

-----------------------------------------------------------------------------
(* Errors and host calls *)

NoErr == [type |-> "None", at |-> 0]
NameError == [type |-> "NameError", at |-> 0]
\* the error the host raised in the n-th host call of the operation
HostError(n) == [type |-> "RuntimeError", at |-> n]

\* a mutating host call: the command, its target, and whether it returned
Call(fn, shelf, ctl) == [fn |-> fn, shelf |-> shelf, ctl |-> ctl, ok |-> TRUE]

\* hs: the host as one operation sees it: [host, nid, calls, err]
HostStart(h, nid) == [host |-> h, nid |-> nid, calls |-> <<>>, err |-> NoErr]

Raised(hs, call) ==
    [hs EXCEPT !.calls = Append(@, [call EXCEPT !.ok = FALSE]),
               !.err = HostError(Len(hs.calls) + 1)]

\* the host refuses the failAt-th mutating call of the operation (0: none)
Refused(hs, failAt) == failAt = Len(hs.calls) + 1

RECURSIVE SeqRemove(_, _)
SeqRemove(s, id) ==
    IF s = <<>> THEN <<>>
    ELSE IF Head(s).id = id THEN SeqRemove(Tail(s), id)
    ELSE <<Head(s)>> \o SeqRemove(Tail(s), id)

KidIds(kids) == [i \in 1..Len(kids) |-> kids[i].id]

HasCtl(h, id) == \E n \in ShelfNames : h[n].exists /\ \E i \in 1..Len(h[n].kids) : h[n].kids[i].id = id

\* cmds.shelfLayout(name, exists=True)
ShelfExists(h, name) == h[name].exists

\* cmds.shelfLayout(name, query=True, childArray=True)
ChildArray(h, name) == KidIds(h[name].kids)

\* '%s|%s' % (cmds.shelfLayout(name, q=True, p=True), name)
LayoutPath(name) == <<"ShelfLayout", "|">> \o name

\* cmds.shelfLayout(name, parent='ShelfLayout'): a new empty shelf; the host
\* raises when the name is taken.
HostShelfLayout(hs, name, failAt) ==
    LET call == Call("shelfLayout", name, 0) IN
    IF Refused(hs, failAt) \/ hs.host[name].exists THEN Raised(hs, call)
    ELSE [hs EXCEPT !.calls = Append(@, call),
                    !.host[name] = [exists |-> TRUE, kids |-> <<>>]]

\* cmds.deleteUI(btn): the control leaves its shelf; the host raises when no
\* such control exists.
HostDeleteCtl(hs, id, failAt) ==
    LET call == Call("deleteUI", <<>>, id) IN
    IF Refused(hs, failAt) \/ ~HasCtl(hs.host, id) THEN Raised(hs, call)
    ELSE [hs EXCEPT !.calls = Append(@, call),
                    !.host = [n \in ShelfNames |->
                                [hs.host[n] EXCEPT !.kids = SeqRemove(@, id)]]]

\* cmds.deleteUI(name): the shelf leaves the host with all its children; the
\* host raises when no such shelf exists.
HostDeleteShelf(hs, name, failAt) ==
    LET call == Call("deleteUI", name, 0) IN
    IF Refused(hs, failAt) \/ ~hs.host[name].exists THEN Raised(hs, call)
    ELSE [hs EXCEPT !.calls = Append(@, call),
                    !.host[name] = [exists |-> FALSE, kids |-> <<>>]]

\* the shelf a layout path names, <<>> when it names none
ParentOf(h, layout) ==
    IF \E n \in ShelfNames : h[n].exists /\ layout = LayoutPath(n)
    THEN CHOOSE n \in ShelfNames : h[n].exists /\ layout = LayoutPath(n)
    ELSE <<>>

\* cmds.shelfButton(..., p=layout) and cmds.separator(..., p=layout): a new
\* control, named by the host, appended to the children of the parent; the
\* host raises when the parent is no layout.
HostAddCtl(hs, fn, layout, attrs, failAt) ==
    LET parent == ParentOf(hs.host, layout)
        call == Call(fn, parent, hs.nid)
    IN
    IF Refused(hs, failAt) \/ parent = <<>> THEN Raised(hs, call)
    ELSE [hs EXCEPT !.calls = Append(@, call),
                    !.nid = @ + 1,
                    !.host[parent].kids =
                        Append(@, [id |-> hs.nid, kind |-> fn, c |-> attrs.c,
                                   i |-> attrs.i, iol |-> attrs.iol])]

-----------------------------------------------------------------------------
(* The ShelvesCreator object *)

\* a reference not (or not successfully) constructed
Unborn ==
    [alive |-> FALSE, name |-> <<>>, icon_path |-> <<>>, python_path |-> <<>>,
     exists |-> FALSE, buttons |-> <<>>, layout |-> <<>>]

\* 'p_ = "%s"; import sys; sys.path.insert(0, p_) if p_ not in sys.path else None; ' % path
InsertionPrefix(path) ==
    <<"p_ = \"">> \o path \o
    <<"\"; import sys; sys.path.insert(0, p_) if p_ not in sys.path else None; ">>

\* setPythonPath without its else branch: '' keeps the prefix in place
setPythonPathKeepsPrefix(self, path) ==
    IF path # <<>> THEN [self EXCEPT !.python_path = InsertionPrefix(path)] ELSE self

setPythonPath(self, path) ==
    [self EXCEPT !.python_path = IF path # <<>> THEN InsertionPrefix(path) ELSE <<>>]

setIconPath(self, path) == [self EXCEPT !.icon_path = path]

\* _updateShelvesInfo: the three queries of lines 47-49
updateShelvesInfo(self, h) ==
    LET e == ShelfExists(h, self.name) IN
    [self EXCEPT !.exists = e,
                 !.buttons = IF e THEN ChildArray(h, self.name) ELSE <<>>,
                 !.layout = IF e THEN LayoutPath(self.name) ELSE <<>>]

\* __init__: r = [self, hs]. Line 28 evaluates the global name ShelfCreator
\* before any field is assigned.
init(name, python_path, icon_path, hs, bound) ==
    IF ~bound THEN [self |-> Unborn, hs |-> [hs EXCEPT !.err = NameError]]
    ELSE LET s1 == [Unborn EXCEPT !.alive = TRUE,
                                  !.name = IF name # <<>> THEN name ELSE NoName,
                                  !.icon_path = icon_path]
             s2 == setPythonPath(s1, python_path)
         IN [self |-> updateShelvesInfo(s2, hs.host), hs |-> hs]

\* the decorator without try/finally: no re-sync when f raises
wrapUpdateOnReturn(r) ==
    IF r.hs.err = NoErr THEN [r EXCEPT !.self = updateShelvesInfo(r.self, r.hs.host)]
    ELSE r

\* the decorator with 'except: pass': the error stops at the wrapper
wrapSwallowing(r) ==
    [r EXCEPT !.self = updateShelvesInfo(r.self, r.hs.host), !.hs.err = NoErr]

\* the decorator: try: f(...) finally: self._updateShelvesInfo()
wrapUpdateShelves(r) == [r EXCEPT !.self = updateShelvesInfo(r.self, r.hs.host)]

createShelf(self, hs, failAt) ==
    wrapUpdateShelves(
        IF ~self.exists
        THEN LET hs2 == HostShelfLayout(hs, self.name, failAt) IN
             [self |-> IF hs2.err = NoErr
                       THEN [self EXCEPT !.layout = LayoutPath(self.name)]
                       ELSE self,
              hs |-> hs2]
        ELSE [self |-> self, hs |-> hs])

\* for btn in self.buttons: cmds.deleteUI(btn)
RECURSIVE DeleteButtons(_, _, _)
DeleteButtons(hs, btns, failAt) ==
    IF btns = <<>> \/ hs.err # NoErr THEN hs
    ELSE DeleteButtons(HostDeleteCtl(hs, Head(btns), failAt), Tail(btns), failAt)

resetShelf(self, hs, failAt) ==
    wrapUpdateShelves(
        [self |-> self,
         hs |-> IF self.exists /\ self.buttons # <<>>
                THEN DeleteButtons(hs, self.buttons, failAt)
                ELSE hs])

deleteShelf(self, hs, failAt) ==
    wrapUpdateShelves(
        [self |-> self,
         hs |-> IF self.exists
                THEN LET hs2 == IF self.buttons # <<>>
                                THEN DeleteButtons(hs, self.buttons, failAt)
                                ELSE hs
                     IN IF hs2.err = NoErr
                        THEN HostDeleteShelf(hs2, self.name, failAt)
                        ELSE hs2
                ELSE hs])

\* lines 104-113
ButtonImage(icon_path, icon) ==
    LET img == PathJoin(icon_path, icon)
        IMG == PathJoin(ICON_PATH, icon)
    IN IF PathExists(img) THEN img
       ELSE IF PathExists(IMG) THEN IMG
       ELSE DefaultImage

\* createButton creating a missing shelf before it adds the button
createButtonEnsuringShelf(self, hs, command, label, icon, failAt) ==
    LET r == createShelf(self, hs, failAt) IN
    wrapUpdateShelves(
        [self |-> r.self,
         hs |-> IF r.hs.err # NoErr THEN r.hs
                ELSE HostAddCtl(r.hs, "shelfButton", r.self.layout,
                                [c |-> r.self.python_path \o command,
                                 i |-> ButtonImage(r.self.icon_path, icon),
                                 iol |-> label],
                                failAt)])

createButton(self, hs, command, label, icon, failAt) ==
    wrapUpdateShelves(
        [self |-> self,
         hs |-> HostAddCtl(hs, "shelfButton", self.layout,
                           [c |-> self.python_path \o command,
                            i |-> ButtonImage(self.icon_path, icon),
                            iol |-> label],
                           failAt)])

createSeparator(self, hs, failAt) ==
    wrapUpdateShelves(
        [self |-> self,
         hs |-> HostAddCtl(hs, "separator", self.layout,
                           [c |-> <<>>, i |-> <<>>, iol |-> <<>>], failAt)])

\* __enter__: resetShelf runs only when createShelf did not raise
enter(self, hs, failAt) ==
    LET r == createShelf(self, hs, failAt) IN
    IF r.hs.err # NoErr THEN r ELSE resetShelf(r.self, r.hs, failAt)

\* __exit__ returns None: the host and the object are untouched and an
\* exception leaving the block keeps propagating.
exit(self, hs) == [self |-> self, hs |-> hs]

LTK == <<"from lighting import lightToolkit; reload(lightToolkit); lightToolkit.main();">>
MKR == <<"from lighting import lightMaker; reload(lightMaker); lightMaker.main();">>
RR == <<"from animation import sceneAssembly; ...; pm.rrSubmit();">>

\* the statements of the with block: each runs only when none before it
\* raised, and passes a propagating exception on
thenEnter(r) == IF r.hs.err # NoErr THEN r ELSE enter(r.self, r.hs, 0)

thenCreateButton(r, command, label, icon) ==
    IF r.hs.err # NoErr THEN r ELSE createButton(r.self, r.hs, command, label, icon, 0)

thenCreateSeparator(r) ==
    IF r.hs.err # NoErr THEN r ELSE createSeparator(r.self, r.hs, 0)

thenExit(r) == IF r.hs.err # NoErr THEN r ELSE exit(r.self, r.hs)

onMayaDroppedPythonFile(hs, bound) ==
    thenExit(
      thenCreateButton(
        thenCreateSeparator(
          thenCreateButton(
            thenCreateButton(
              thenEnter(init(CustomShelf, <<>>, <<>>, hs, bound)),
              LTK, <<"LTK">>, <<"icon_lightning.png">>),
            MKR, <<"MKR">>, <<"icon_lightning.png">>)),
        RR, <<"RR">>, <<"icon_upload.png">>))

-----------------------------------------------------------------------------
(* State machine *)

\* the record of the call that produced the current state
Done(op, h, r, pre, was, args) ==
    [op |-> op, h |-> h, err |-> r.hs.err, calls |-> r.hs.calls,
     pre |-> pre, was |-> was, self |-> r.self, args |-> args]

NoArgs == <<>>

\* the refusals the host may answer with: the failAt-th call, 0 for none
MaxFail == 2
FailArgs == 0..MaxFail

Kid(id) == [id |-> id, kind |-> "shelfButton", c |-> <<"old()">>,
            i |-> DefaultImage, iol |-> <<>>]

\* the shelves the host may hold before the first call: each absent, or
\* present with up to MaxInitKids children
InitHosts ==
    { [n \in ShelfNames |->
         IF n = NoName
         THEN [exists |-> a > 0, kids |-> [i \in 1..(a - 1) |-> Kid(i)]]
         ELSE [exists |-> b > 0,
               kids |-> [i \in 1..(b - 1) |-> Kid(i + (IF a > 0 THEN a - 1 ELSE 0))]]]
      : a \in 0..(MaxInitKids + 1), b \in 0..(MaxInitKids + 1) }

KidCount(h) == Len(h[NoName].kids) + Len(h[CustomShelf].kids)

InitWith(bound) ==
    /\ host \in InitHosts
    /\ nextId = KidCount(host) + 1
    /\ helper = [h \in Helpers |-> Unborn]
    /\ pathGiven = [h \in Helpers |-> <<>>]
    /\ nameBound = bound
    /\ last = [op |-> "start", h |-> "", err |-> NoErr, calls |-> <<>>,
               pre |-> host, was |-> Unborn, self |-> Unborn, args |-> NoArgs]

\* the outcome r of a call of 'op' on the object h
Commit(op, h, r, args) ==
    /\ r.hs.nid <= MaxIds + 1
    /\ host' = r.hs.host
    /\ nextId' = r.hs.nid
    /\ helper' = [helper EXCEPT ![h] = r.self]
    /\ last' = Done(op, h, r, host, helper[h], args)
    /\ UNCHANGED nameBound

\* h = ShelvesCreator(name, python_path, icon_path)
Construct(h, name, python_path, icon_path) ==
    /\ ~helper[h].alive
    /\ Commit("init", h,
              init(name, python_path, icon_path, HostStart(host, nextId), nameBound),
              <<name, python_path, icon_path>>)
    /\ pathGiven' = IF nameBound THEN [pathGiven EXCEPT ![h] = python_path]
                                 ELSE pathGiven

SetPythonPath(h, path) ==
    /\ helper[h].alive
    /\ Commit("setPythonPath", h,
              [self |-> setPythonPath(helper[h], path), hs |-> HostStart(host, nextId)],
              <<path>>)
    /\ pathGiven' = [pathGiven EXCEPT ![h] = path]

SetIconPath(h, path) ==
    /\ helper[h].alive
    /\ Commit("setIconPath", h,
              [self |-> setIconPath(helper[h], path), hs |-> HostStart(host, nextId)],
              <<path>>)
    /\ UNCHANGED pathGiven

CreateShelf(h, failAt) ==
    /\ helper[h].alive
    /\ Commit("createShelf", h,
              createShelf(helper[h], HostStart(host, nextId), failAt), NoArgs)
    /\ UNCHANGED pathGiven

ResetShelf(h, failAt) ==
    /\ helper[h].alive
    /\ Commit("resetShelf", h,
              resetShelf(helper[h], HostStart(host, nextId), failAt), NoArgs)
    /\ UNCHANGED pathGiven

DeleteShelf(h, failAt) ==
    /\ helper[h].alive
    /\ Commit("deleteShelf", h,
              deleteShelf(helper[h], HostStart(host, nextId), failAt), NoArgs)
    /\ UNCHANGED pathGiven

CreateButton(h, command, icon, failAt) ==
    /\ helper[h].alive
    /\ Commit("createButton", h,
              createButton(helper[h], HostStart(host, nextId), command, <<>>, icon, failAt),
              <<command, icon>>)
    /\ UNCHANGED pathGiven

CreateSeparator(h, failAt) ==
    /\ helper[h].alive
    /\ Commit("createSeparator", h,
              createSeparator(helper[h], HostStart(host, nextId), failAt), NoArgs)
    /\ UNCHANGED pathGiven

\* with h: ...   (entering)
Enter(h, failAt) ==
    /\ helper[h].alive
    /\ Commit("enter", h, enter(helper[h], HostStart(host, nextId), failAt), NoArgs)
    /\ UNCHANGED pathGiven

\* with h: ...   (leaving)
Exit(h) ==
    /\ helper[h].alive
    /\ Commit("exit", h, exit(helper[h], HostStart(host, nextId)), NoArgs)
    /\ UNCHANGED pathGiven

\* the file is dropped into the host; its helper object is local to the call
OnMayaDroppedPythonFile(cap) ==
    LET r == onMayaDroppedPythonFile(HostStart(host, nextId), nameBound) IN
    /\ r.hs.nid <= cap + 1
    /\ host' = r.hs.host
    /\ nextId' = r.hs.nid
    /\ last' = Done("drop", "", r, host, Unborn, NoArgs)
    /\ UNCHANGED <<helper, pathGiven, nameBound>>

(* The module as shipped: nothing binds the global name ShelfCreator, so      *)
(* no object is ever constructed and only the constructor and the drop        *)
(* handler can be called.                                                     *)
Init == InitWith(FALSE)

Next ==
    \/ \E h \in Helpers, n \in NameArgs, p \in PathArgs, ip \in IconPathArgs :
          Construct(h, n, p, ip)
    \/ OnMayaDroppedPythonFile(MaxIds)

Spec == Init /\ [][Next]_vars

(* The methods, on objects whose fields are set as lines 29-35 set them       *)
(* (the name of line 28 resolving): shelves, children and cached snapshots    *)
(* of two objects that may share a shelf name.                                *)
InitBound == InitWith(TRUE)

NextCalls ==
    \/ \E h \in Helpers, n \in NameArgs : Construct(h, n, <<>>, <<>>)
    \/ \E h \in Helpers, f \in FailArgs : CreateShelf(h, f)
    \/ \E h \in Helpers, f \in FailArgs : ResetShelf(h, f)
    \/ \E h \in Helpers, f \in FailArgs : DeleteShelf(h, f)
    \/ \E h \in Helpers, f \in FailArgs : CreateButton(h, <<"run()">>, <<>>, f)
    \/ \E h \in Helpers, f \in FailArgs : CreateSeparator(h, f)

SpecCalls == InitBound /\ [][NextCalls]_vars

(* The attributes of the buttons one object creates on its shelf: commands,  *)
(* python paths, icon directories and icons.                                  *)
MaxButtons == 2

InitButtons == InitBound /\ KidCount(host) = 0

NextButtons ==
    \/ \E p \in PathArgs, ip \in IconPathArgs : Construct("h1", CustomShelf, p, ip)
    \/ \E p \in PathArgs : SetPythonPath("h1", p)
    \/ \E ip \in IconPathArgs : SetIconPath("h1", ip)
    \/ CreateShelf("h1", 0)
    \/ \E c \in CommandArgs, i \in IconArgs :
          KidCount(host) < MaxButtons /\ CreateButton("h1", c, i, 0)

SpecButtons == InitButtons /\ [][NextButtons]_vars

(* The drop handler and the 'with' protocol, the name of line 28 resolving.   *)
MaxDropIds == 8

NextDrop ==
    \/ \E h \in Helpers : Construct(h, CustomShelf, <<>>, <<>>)
    \/ \E h \in Helpers, f \in FailArgs : Enter(h, f)
    \/ \E h \in Helpers : Exit(h)
    \/ OnMayaDroppedPythonFile(MaxDropIds)

SpecDrop == InitBound /\ [][NextDrop]_vars

-----------------------------------------------------------------------------
(* Properties *)

MutatingOps == {"createShelf", "resetShelf", "deleteShelf", "createButton",
                "createSeparator"}

\* the object the last method call was made on
Self == helper[last.h]

\* the ids of a shelf's children, in order
Ids(h, n) == [i \in 1..Len(h[n].kids) |-> h[n].kids[i].id]

AllIds(h) == UNION {{h[n].kids[i].id : i \in 1..Len(h[n].kids)} : n \in ShelfNames}

\* the cached snapshot of s agrees with the host h
InSync(s, h) ==
    /\ s.exists = h[s.name].exists
    /\ s.buttons = (IF h[s.name].exists THEN Ids(h, s.name) ELSE <<>>)
    /\ s.layout = (IF h[s.name].exists THEN <<"ShelfLayout", "|">> \o s.name ELSE <<>>)

\* the last call returned normally
Returned == last.err.type = "None"

\* the calls of the last operation that the host refused
RaisedAt == {i \in 1..Len(last.calls) : ~last.calls[i].ok}

\* the controls the last operation deleted one by one
DeletedIds ==
    {last.calls[i].ctl : i \in {j \in 1..Len(last.calls) :
        last.calls[j].ok /\ last.calls[j].fn = "deleteUI" /\ last.calls[j].shelf = <<>>}}

Without(kids, ids) == SelectSeq(kids, LAMBDA k : k.id \notin ids)

\* C1: when a mutating operation returns or raises, the object's cached
\* exists flag, child list and layout path are those of the host at that
\* moment (no shelf: FALSE, empty list, empty path), also after a failure
\* part-way through.
C1_CacheSyncedAfterOperation ==
    last.op \in MutatingOps => InSync(Self, host)

\* a resetShelf that deleted one child and failed on the next, leaving a
\* child behind, with the cache listing exactly what is left
C1_Witness ==
    /\ last.op = "resetShelf"
    /\ last.err.type = "RuntimeError"
    /\ DeletedIds # {}
    /\ Self.buttons # <<>>
    /\ Self.buttons # Ids(last.pre, Self.name)

\* C2: after createShelf returns normally the host has the shelf; when the
\* host already had it before the call no creation call is issued and its
\* children are unchanged.
C2_CreateShelfEnsuresShelf ==
    (last.op = "createShelf" /\ Returned) =>
        /\ host[Self.name].exists
        /\ last.pre[Self.name].exists =>
              (last.calls = <<>> /\ host[Self.name].kids = last.pre[Self.name].kids)

\* C2 (second part, also for calls that raise): no creation call is issued
\* for a shelf the host already has.
C2_NoCreationCallWhenPresent ==
    (last.op = "createShelf" /\ last.pre[Self.name].exists) => last.calls = <<>>

\* C3: after resetShelf returns normally the shelf has no children and its
\* existence is unchanged, whatever other objects did to the shelf before.
C3_ResetLeavesNoChildren ==
    (last.op = "resetShelf" /\ Returned) =>
        /\ host[Self.name].kids = <<>>
        /\ host[Self.name].exists = last.pre[Self.name].exists

\* C4: after deleteShelf returns normally the host has no shelf of that
\* name, none of its former children is left, and the cache reads FALSE,
\* empty, empty; a shelf absent before the call means no deleting call and
\* an unchanged host.
C4_DeleteRemovesShelf ==
    (last.op = "deleteShelf" /\ Returned) =>
        /\ ~host[Self.name].exists
        /\ AllIds(host) \cap {last.pre[Self.name].kids[i].id :
                                 i \in 1..Len(last.pre[Self.name].kids)} = {}
        /\ ~Self.exists /\ Self.buttons = <<>> /\ Self.layout = <<>>

\* C4 (second part): deleteShelf on a shelf the host does not have issues no
\* deleting call.
C4_NoDeletingCallWhenAbsent ==
    (last.op = "deleteShelf" /\ ~last.pre[Self.name].exists) =>
        (last.calls = <<>> /\ host = last.pre)

\* The four statements above hold of every call made with a cache that
\* agreed with the host when the call began.
Fresh == last.op \in MutatingOps /\ InSync(last.was, last.pre)

CreateShelfWhenFresh ==
    Fresh => C2_CreateShelfEnsuresShelf /\ C2_NoCreationCallWhenPresent

ResetShelfWhenFresh == Fresh => C3_ResetLeavesNoChildren

DeleteShelfWhenFresh ==
    Fresh => C4_DeleteRemovesShelf /\ C4_NoDeletingCallWhenAbsent

\* C7: when a host call raises inside a mutating operation, that call's
\* error is what the caller gets, the operation issues no call after it (no
\* retry), the children deleted before it stay deleted and everything else
\* stays, and the cache is re-synced to that host state.
C7_HostErrorPropagates ==
    (last.op \in MutatingOps /\ RaisedAt # {}) =>
        /\ RaisedAt = {Len(last.calls)}
        /\ last.err = [type |-> "RuntimeError", at |-> Len(last.calls)]
        /\ host = [n \in ShelfNames |->
                     [exists |-> last.pre[n].exists,
                      kids |-> Without(last.pre[n].kids, DeletedIds)]]
        /\ InSync(Self, host)

\* a deleteShelf whose second child deletion is refused: the first child is
\* gone, the second and the shelf remain
C7_Witness ==
    /\ last.op = "deleteShelf"
    /\ RaisedAt = {2}
    /\ Len(last.pre[Self.name].kids) = 2
    /\ Len(host[Self.name].kids) = 1
    /\ host[Self.name].exists

\* C10: createButton and createSeparator never create or delete a shelf, and
\* a call that returns on an existing shelf appends exactly one new child
\* after the existing ones, which stay as they were; the cached child list
\* then has one entry per child.
C10_OneChildAppended ==
    last.op \in {"createButton", "createSeparator"} =>
        /\ \A n \in ShelfNames : host[n].exists = last.pre[n].exists
        /\ (Returned /\ last.pre[Self.name].exists) =>
              LET old == last.pre[Self.name].kids
                  new == host[Self.name].kids
              IN /\ Len(new) = Len(old) + 1
                 /\ SubSeq(new, 1, Len(old)) = old
                 /\ new[Len(new)].id \notin AllIds(last.pre)
                 /\ new[Len(new)].kind =
                       (IF last.op = "createButton" THEN "shelfButton" ELSE "separator")
                 /\ \A n \in ShelfNames \ {Self.name} : host[n] = last.pre[n]
                 /\ Len(Self.buttons) = Len(new)

\* a separator added after two existing children
C10_Witness ==
    /\ last.op = "createSeparator"
    /\ Returned
    /\ Len(last.pre[Self.name].kids) = 2
    /\ Len(host[Self.name].kids) = 3

\* a file (not a directory) of that path exists
IsFile(p) == p \in Files

\* the child the last call appended to the object's shelf
NewKid == host[Self.name].kids[Len(host[Self.name].kids)]

\* C5: the command bound to a new button is the caller's command when the
\* python path last given to the object is empty, and otherwise the
\* search-path insertion for that path followed by the caller's command;
\* the buttons that exist keep their commands, and setPythonPath touches
\* nothing in the host.
C5_CommandPrefix ==
    /\ (last.op = "createButton" /\ Returned) =>
          /\ NewKid.c =
                (IF pathGiven[last.h] = <<>> THEN last.args[1]
                 ELSE <<"p_ = \"">> \o pathGiven[last.h] \o
                      <<"\"; import sys; sys.path.insert(0, p_) if p_ not in sys.path else None; ">>
                      \o last.args[1])
          /\ SubSeq(host[Self.name].kids, 1, Len(host[Self.name].kids) - 1)
                = last.pre[Self.name].kids
    /\ last.op = "setPythonPath" => host = last.pre

\* a button bound with no prefix although an earlier button of the same
\* object carries one: the path was reset to '' in between
C5_Witness ==
    /\ last.op = "createButton"
    /\ Returned
    /\ Len(host[Self.name].kids) = 2
    /\ NewKid.c = last.args[1]
    /\ Len(host[Self.name].kids[1].c) = 4

\* C6: the image of a new button is the file of that name in the caller's
\* icon directory if there is one, otherwise the file of that name in the
\* bundled icon directory if there is one, otherwise 'pythonFamily.png' --
\* for every icon argument, the default '' included.
C6_IconFallback ==
    (last.op = "createButton" /\ Returned) =>
        NewKid.i =
            (IF IsFile(PathJoin(Self.icon_path, last.args[2]))
             THEN PathJoin(Self.icon_path, last.args[2])
             ELSE IF IsFile(PathJoin(ICON_PATH, last.args[2]))
             THEN PathJoin(ICON_PATH, last.args[2])
             ELSE <<"pythonFamily.png">>)

\* C6 holds of every icon argument that is not the empty string.
IconFallbackForNamedIcons ==
    (last.op = "createButton" /\ last.args[2] # <<>>) => C6_IconFallback

\* C8: constructing an object completes without raising, changes nothing in
\* the host, and leaves the object with the given name ('NoName' for '')
\* and a cached snapshot equal to the host's state for that name.
C8_ConstructorCompletes ==
    last.op = "init" =>
        /\ Returned
        /\ host = last.pre
        /\ Self.alive
        /\ Self.name = (IF last.args[1] = <<>> THEN <<"NoName">> ELSE last.args[1])
        /\ InSync(Self, host)

\* C8 holds once the name of line 28 resolves.
ConstructorWhenNameResolves == nameBound => C8_ConstructorCompletes

\* C9: running onMayaDroppedPythonFile ends with 'CustomShelf' existing and
\* holding exactly the four children LTK, MKR, separator, RR, in that order,
\* whatever the host held before.
C9_DropLeavesFourChildren ==
    last.op = "drop" =>
        /\ Returned
        /\ host[CustomShelf].exists
        /\ [i \in 1..Len(host[CustomShelf].kids) |->
              <<host[CustomShelf].kids[i].kind, host[CustomShelf].kids[i].iol>>]
           = << <<"shelfButton", <<"LTK">> >>, <<"shelfButton", <<"MKR">> >>,
                <<"separator", <<>> >>, <<"shelfButton", <<"RR">> >> >>

\* C9 holds once the name of line 28 resolves.
DropWhenNameResolves == nameBound => C9_DropLeavesFourChildren

====
